---- MODULE Spec2Model ----
(***************************************************************************)
(* Model of scripts/dev/audit_plans.py: the plan auditor walks docs/plans, *)
(* scans every *.md file except README.md line by line for task            *)
(* checkboxes, and prints one block of report lines per document.          *)
(*                                                                         *)
(* Text is modelled as sequences of one-character strings, so that the     *)
(* regular expression, str.lower, str.strip, slicing, splitlines and the   *)
(* ordering of paths are computed character by character.                  *)
(***************************************************************************)
EXTENDS Integers, Sequences, FiniteSets, TLC

(***************************************************************************)
(* Bounds of the explored inputs.                                          *)
(***************************************************************************)
\* most entries below docs/plans in the directory-tree inputs
MaxFiles == 3
\* most lines of a document built from the whole line catalogue
MaxShort == 2
\* most lines of a document built from the counting lines only
MaxLines == 8

(***************************************************************************)
(* Characters and strings.                                                 *)
(***************************************************************************)
Upper == <<"A","B","C","D","E","F","G","H","I","J","K","L","M",
           "N","O","P","Q","R","S","T","U","V","W","X","Y","Z">>
Lowercase == <<"a","b","c","d","e","f","g","h","i","j","k","l","m",
               "n","o","p","q","r","s","t","u","v","w","x","y","z">>

\* characters matched by \s that can occur inside a line
Whitespace == {" ", "\t"}

Min(a, b) == IF a < b THEN a ELSE b

\* str.lower() on one character
LowerChar(c) ==
  IF \E k \in 1..26 : Upper[k] = c
  THEN Lowercase[CHOOSE k \in 1..26 : Upper[k] = c]
  ELSE c

\* a plausible slip: the comparison is made without lowering
LowerIdentity(s) == s

\* str.lower()
Lower(s) == [k \in 1..Len(s) |-> LowerChar(s[k])]

\* ord() of the characters that occur in paths
Ord(c) ==
  IF \E k \in 1..26 : Upper[k] = c THEN 64 + (CHOOSE k \in 1..26 : Upper[k] = c)
  ELSE IF \E k \in 1..26 : Lowercase[k] = c
       THEN 96 + (CHOOSE k \in 1..26 : Lowercase[k] = c)
  ELSE IF c = "-" THEN 45
  ELSE IF c = "." THEN 46
  ELSE IF c = "/" THEN 47
  ELSE 32

\* s < t for Python strings: the first differing character decides, and a
\* proper prefix is smaller
StrLess(s, t) ==
  \/ Len(s) < Len(t) /\ \A k \in 1..Len(s) : s[k] = t[k]
  \/ \E k \in 1..Min(Len(s), Len(t)) :
        /\ \A l \in 1..(k - 1) : s[l] = t[l]
        /\ Ord(s[k]) < Ord(t[k])

\* s[:n]
Slice(s, n) == SubSeq(s, 1, Min(n, Len(s)))

\* s[n:] with n counted from 1, i.e. the text from position n on
From(s, n) == SubSeq(s, n, Len(s))

\* index of the first character at or after position k that is not
\* whitespace (Len(s) + 1 when there is none): what a greedy \s* consumes
RECURSIVE SkipWs(_, _)
SkipWs(s, k) ==
  IF k <= Len(s) /\ s[k] \in Whitespace THEN SkipWs(s, k + 1) ELSE k

\* str.strip(): leading and trailing whitespace removed
RECURSIVE RStrip(_)
RStrip(s) ==
  IF s # <<>> /\ s[Len(s)] \in Whitespace THEN RStrip(SubSeq(s, 1, Len(s) - 1))
  ELSE s

Strip(s) == RStrip(From(s, SkipWs(s, 1)))

\* str.splitlines() for texts whose line breaks are "\n": each line ends at
\* its newline, a last line may lack one, and a final newline opens no line
SplitLines(text) ==
  LET nl == {k \in 1..Len(text) : text[k] = "\n"}
      n  == Cardinality(nl) + (IF text # <<>> /\ text[Len(text)] # "\n" THEN 1 ELSE 0)
      \* position of the j-th newline; 0 and Len(text) + 1 stand in at the ends
      at(j) == IF j = 0 THEN 0
               ELSE IF j > Cardinality(nl) THEN Len(text) + 1
               ELSE CHOOSE p \in nl : Cardinality({q \in nl : q < p}) = j - 1
  IN [j \in 1..n |-> SubSeq(text, at(j - 1) + 1, at(j) - 1)]

\* The regular expression of line 18, compiled with re.IGNORECASE and applied
\* with pat.match: start of line, greedy whitespace, one of - and *, greedy
\* whitespace, an opening bracket, group 1 (a space, an x or a tilde), a
\* closing bracket, greedy whitespace, group 2 (the rest of the line).
\* The result is the match flag and the two groups. Each run of whitespace
\* is followed by something no whitespace character can match (the last one
\* by a group that matches anything), so backtracking never changes what the
\* groups hold.
NoMatch == [ok |-> FALSE, g1 |-> <<>>, g2 |-> <<>>]

\* a plausible slip: \s instead of \s* on both sides of the checkbox
PatMatchOneSpace(line) ==
  LET a == SkipWs(line, 1) IN
  IF /\ a + 5 <= Len(line)
     /\ line[a] \in {"-", "*"}
     /\ line[a + 1] \in Whitespace
     /\ line[a + 2] = "["
     /\ line[a + 3] \in {" ", "x", "X", "~"}
     /\ line[a + 4] = "]"
     /\ line[a + 5] \in Whitespace
  THEN [ok |-> TRUE, g1 |-> <<line[a + 3]>>, g2 |-> From(line, SkipWs(line, a + 5))]
  ELSE NoMatch

PatMatch(line) ==
  LET a == SkipWs(line, 1)
      b == SkipWs(line, a + 1)
  IN
  IF /\ a <= Len(line)
     /\ line[a] \in {"-", "*"}
     /\ b + 2 <= Len(line)
     /\ line[b] = "["
     /\ line[b + 1] \in {" ", "x", "X", "~"}
     /\ line[b + 2] = "]"
  THEN [ok |-> TRUE, g1 |-> <<line[b + 1]>>, g2 |-> From(line, SkipWs(line, b + 3))]
  ELSE NoMatch

(***************************************************************************)
(* The loop body of lines 27-37 as a function of the counters: c is the    *)
(* record of total, done, impl and unchecked, i the 1-based line number.   *)
(***************************************************************************)
\* a plausible slip: the entry carries the number of the task, not of the line
TallyTaskNumber(c, i, line) ==
  LET m == PatMatch(line) IN
  IF ~m.ok THEN c
  ELSE LET state == Lower(m.g1) IN
       IF state = <<"x">> THEN [c EXCEPT !.total = @ + 1, !.done = @ + 1]
       ELSE IF state = <<"~">> THEN [c EXCEPT !.total = @ + 1, !.impl = @ + 1]
       ELSE [c EXCEPT !.total = @ + 1,
                      !.unchecked = Append(@, <<c.total + 1, Strip(m.g2)>>)]

\* a plausible slip: total is counted only where a state is recognised
TallyLateTotal(c, i, line) ==
  LET m == PatMatch(line) IN
  IF ~m.ok THEN c
  ELSE LET state == Lower(m.g1) IN
       IF state = <<"x">> THEN [c EXCEPT !.total = @ + 1, !.done = @ + 1]
       ELSE IF state = <<"~">> THEN [c EXCEPT !.total = @ + 1, !.impl = @ + 1]
       ELSE [c EXCEPT !.unchecked = Append(@, <<i, Strip(m.g2)>>)]

Tally(c, i, line) ==
  LET m == PatMatch(line) IN
  IF ~m.ok THEN c
  ELSE LET state == Lower(m.g1) IN
       IF state = <<"x">> THEN [c EXCEPT !.total = @ + 1, !.done = @ + 1]
       ELSE IF state = <<"~">> THEN [c EXCEPT !.total = @ + 1, !.impl = @ + 1]
       ELSE [c EXCEPT !.total = @ + 1,
                      !.unchecked = Append(@, <<i, Strip(m.g2)>>)]

\* the counters of lines 21-24
ZeroCounts == [total |-> 0, done |-> 0, impl |-> 0, unchecked |-> <<>>]

(***************************************************************************)
(* pct = (done / total) * 100.0 and its rendering by the format .0f.       *)
(* Python floats are IEEE-754 doubles. A double is modelled as its 53      *)
(* significand bits, most significant first, and the exponent e of the     *)
(* leading bit: value = SUM m[k] * 2^(e - k + 1). Division and             *)
(* multiplication round the exact result to nearest, ties to even.         *)
(***************************************************************************)
\* bits of the significand of a double
Precision == 53

Zeros(n) == [k \in 1..n |-> 0]

RECURSIVE Pow2(_)
Pow2(n) == IF n = 0 THEN 1 ELSE 2 * Pow2(n - 1)

\* the n-bit binary numeral of v, most significant bit first (n <= 30)
ToBits(v, n) == [k \in 1..n |-> (v \div Pow2(n - k)) % 2]

\* the value of a bit string of at most 30 bits
RECURSIVE BitsToInt(_)
BitsToInt(bits) ==
  IF bits = <<>> THEN 0
  ELSE IF Len(bits) = 1 THEN bits[1]
  ELSE LET h == Len(bits) \div 2 IN
       BitsToInt(SubSeq(bits, 1, h)) * Pow2(Len(bits) - h)
         + BitsToInt(SubSeq(bits, h + 1, Len(bits)))

\* bits + 1 for a bit string that is not all ones
IncBits(bits) ==
  LET j == CHOOSE k \in 1..Len(bits) :
             bits[k] = 0 /\ \A l \in (k + 1)..Len(bits) : bits[l] = 1
  IN [k \in 1..Len(bits) |-> IF k < j THEN bits[k] ELSE IF k = j THEN 1 ELSE 0]

\* round an exact value (bits, leading exponent e, plus a sticky flag for
\* what lies beyond the bits) to Precision bits, nearest with ties to even
RoundToDouble(bits, e, sticky) ==
  IF Len(bits) <= Precision
  THEN [m |-> bits \o Zeros(Precision - Len(bits)), e |-> e]
  ELSE LET keep  == SubSeq(bits, 1, Precision)
           guard == bits[Precision + 1]
           rest  == sticky \/ \E k \in (Precision + 2)..Len(bits) : bits[k] = 1
           up    == guard = 1 /\ (rest \/ keep[Precision] = 1)
       IN IF ~up THEN [m |-> keep, e |-> e]
          ELSE IF \A k \in 1..Precision : keep[k] = 1
               THEN [m |-> <<1>> \o Zeros(Precision - 1), e |-> e + 1]
               ELSE [m |-> IncBits(keep), e |-> e]

\* the first 9n bits after the binary point of r / t, 0 <= r < t, by long
\* division, nine bits a step: the bits and the remainder left
RECURSIVE DivBits(_, _, _)
DivBits(r, t, n) ==
  IF n = 0 THEN [bits |-> <<>>, rem |-> r]
  ELSE LET q    == (r * 512) \div t
           next == DivBits((r * 512) % t, t, n - 1)
       IN [bits |-> ToBits(q, 9) \o next.bits, rem |-> next.rem]

\* the number of doublings that bring d up to t or above
RECURSIVE Shift(_, _)
Shift(d, t) == IF d >= t THEN 0 ELSE 1 + Shift(2 * d, t)

\* done / total for integers 1 <= d <= t: the correctly rounded quotient.
\* d * 2^k lies in [t, 2t), so the leading bit is 1 and has exponent -k.
TrueDiv(d, t) ==
  LET k == Shift(d, t)
      q == DivBits(d * Pow2(k) - t, t, 6)
  IN RoundToDouble(<<1>> \o q.bits, 0 - k, q.rem # 0)

\* x * 100.0: the significand is split into limbs of 13, 20 and 20 bits, each
\* is multiplied by 100 with the carry passed on, and the exact product is
\* rounded
Times100(x) ==
  LET lo  == BitsToInt(SubSeq(x.m, Precision - 19, Precision))
      mid == BitsToInt(SubSeq(x.m, Precision - 39, Precision - 20))
      hi  == BitsToInt(SubSeq(x.m, 1, Precision - 40))
      p0  == lo * 100
      p1  == mid * 100 + p0 \div Pow2(20)
      p2  == hi * 100 + p1 \div Pow2(20)
      all == ToBits(p2, 20) \o ToBits(p1 % Pow2(20), 20)
               \o ToBits(p0 % Pow2(20), 20)
      lead == CHOOSE k \in 1..Len(all) : all[k] = 1 /\ \A l \in 1..(k - 1) : all[l] = 0
      p   == SubSeq(all, lead, Len(all))
  IN RoundToDouble(p, x.e - (Precision - 1) + (Len(p) - 1), FALSE)

\* the whole part of a double below 2^30 and the bits after the binary point
WholeAndFraction(x) ==
  IF x.e >= 0
  THEN [whole |-> BitsToInt(SubSeq(x.m, 1, x.e + 1)),
        frac  |-> SubSeq(x.m, x.e + 2, Precision)]
  ELSE [whole |-> 0, frac |-> Zeros(0 - x.e - 1) \o x.m]

\* a plausible slip: a tie is rounded up
FormatF0HalfUp(x) ==
  LET p == WholeAndFraction(x)
      half == p.frac # <<>> /\ p.frac[1] = 1
  IN IF half THEN p.whole + 1 ELSE p.whole

\* format(x, ".0f"): the exact value of the double rounded to a whole
\* number, a tie to the even neighbour
FormatF0(x) ==
  LET p == WholeAndFraction(x)
      half == p.frac # <<>> /\ p.frac[1] = 1
      rest == \E k \in 2..Len(p.frac) : p.frac[k] = 1
  IN IF half /\ (rest \/ p.whole % 2 = 1) THEN p.whole + 1 ELSE p.whole

\* the number printed before "% tested" (lines 43-44); total > 0.
\* 0 / total is 0.0, which prints as 0.
Pct(done, total) ==
  IF done = 0 THEN 0 ELSE FormatF0(Times100(TrueDiv(done, total)))

(***************************************************************************)
(* Paths. A path is the sequence of its components below the root.         *)
(***************************************************************************)
\* Path("docs/plans") of line 12
Root == <<"d", "o", "c", "s", "/", "p", "l", "a", "n", "s">>

ReadmeLower == <<"r", "e", "a", "d", "m", "e", ".", "m", "d">>

\* Path.name
Name(rel) == rel[Len(rel)]

\* Path.as_posix(): the root and the components joined with "/"
RECURSIVE AsPosix(_)
AsPosix(rel) ==
  IF rel = <<>> THEN Root ELSE AsPosix(SubSeq(rel, 1, Len(rel) - 1)) \o <<"/">> \o Name(rel)

\* the pattern "*.md" of rglob against a name, as fnmatch on POSIX does it:
\* the name ends with ".md", letter case counting
FnmatchMd(name) ==
  Len(name) >= 3 /\ SubSeq(name, Len(name) - 2, Len(name)) = <<".", "m", "d">>

\* a plausible slip: the reserved name is compared without lower()
ExcludedExact(name) == name = <<"R", "E", "A", "D", "M", "E", ".", "m", "d">>

\* the name test of line 16
Excluded(name) == Lower(name) = ReadmeLower

\* the paths root.rglob("*.md") yields (line 15): none when the root does
\* not exist, else everything below it, directories too, whose name matches
RGlob(exists, tree) ==
  IF exists THEN {e \in tree : FnmatchMd(Name(e.rel))} ELSE {}

\* the entries that pass the filter of line 16
Discovered(exists, tree) ==
  {e \in RGlob(exists, tree) : e.kind = "file" /\ ~Excluded(Name(e.rel))}

\* a plausible slip: the key is lowered, so the order ignores letter case
SortedIgnoringCase(fl) ==
  LET key(i) == Lower(AsPosix(fl[i].rel))
      before(i, j) == StrLess(key(i), key(j)) \/ (key(i) = key(j) /\ i < j)
      rank(i) == 1 + Cardinality({j \in 1..Len(fl) : before(j, i)})
  IN [k \in 1..Len(fl) |-> fl[CHOOSE i \in 1..Len(fl) : rank(i) = k]]

\* sorted(files, key=lambda x: x.as_posix()) of line 20: a stable sort, so
\* an element goes behind those with a smaller key and those with an equal
\* key that stood before it
Sorted(fl) ==
  LET before(i, j) == \/ StrLess(AsPosix(fl[i].rel), AsPosix(fl[j].rel))
                      \/ AsPosix(fl[i].rel) = AsPosix(fl[j].rel) /\ i < j
      rank(i) == 1 + Cardinality({j \in 1..Len(fl) : before(j, i)})
  IN [k \in 1..Len(fl) |-> fl[CHOOSE i \in 1..Len(fl) : rank(i) = k]]

(***************************************************************************)
(* The report of one document (lines 39-48). A printed line is a record of *)
(* the values its f-string interpolates; doc is the document whose block   *)
(* the line belongs to (printed on the first line of the block only).      *)
(***************************************************************************)
\* the slice bound of line 45
PreviewMax == 5
\* the slice bound of line 46
TextMax == 120

Blank == [kind |-> "", doc |-> <<>>, done |-> 0, impl |-> 0, total |-> 0,
          pct |-> 0, ln |-> 0, txt |-> <<>>, more |-> 0]

\* a plausible slip: the slice stops one entry early
PreviewShort(u) == Slice(u, PreviewMax - 1)

\* unchecked[:5]
Preview(u) == Slice(u, PreviewMax)

\* a plausible slip: a document counts as empty when nothing is done
IsEmptyNothingDone(c) == c.done = 0

\* the test of line 39
IsEmpty(c) == c.total = 0

ReportLines(p, c) ==
  IF IsEmpty(c)
  THEN <<[Blank EXCEPT !.kind = "notasks", !.doc = p]>>
  ELSE LET shown == Preview(c.unchecked) IN
       <<[Blank EXCEPT !.kind = "summary", !.doc = p, !.done = c.done,
                       !.impl = c.impl, !.total = c.total,
                       !.pct = Pct(c.done, c.total)]>>
       \o [k \in 1..Len(shown) |->
             [Blank EXCEPT !.kind = "item", !.doc = p, !.ln = shown[k][1],
                           !.txt = Slice(shown[k][2], TextMax)]]
       \o (IF Len(c.unchecked) > PreviewMax
           THEN <<[Blank EXCEPT !.kind = "more", !.doc = p,
                                !.more = Len(c.unchecked) - PreviewMax]>>
           ELSE <<>>)

(***************************************************************************)
(* Inputs: the lines, texts and directory trees the runs are started on.   *)
(***************************************************************************)
DoneLine == <<"-", " ", "[", "x", "]", " ", "a">>
DoneUpperLine == <<"-", " ", "[", "X", "]", " ", "a">>
ImplLine == <<"*", " ", "[", "~", "]", " ", "c">>
OpenLine == <<"-", " ", "[", " ", "]", " ", "b">>
IndentedLine == <<" ", " ", "-", " ", "[", " ", "]", " ", "b", " ", " ">>
TightLine == <<"-", "[", "x", "]", "a">>
QueryLine == <<"-", " ", "[", "?", "]", " ", "q">>
BareLine == <<"-", " ", "[", " ", "]">>
ProseLine == <<"n", "o", "t", " ", "a", " ", "t", "a", "s", "k">>
TwoCharLine == <<"-", " ", "[", "x", "x", "]", " ", "a">>
PlusLine == <<"+", " ", "[", "x", "]", " ", "a">>
TabLine == <<"\t", "*", "\t", "[", "~", "]", "\t", "c">>
InnerLine == <<"a", " ", "-", " ", "[", "x", "]", " ", "b">>
NoTrailSpaceLine == <<"-", " ", "[", " ", "]", "b">>
EmptyLine == <<>>
\* an unchecked task whose text is longer than the display width
LongLine == <<"-", " ", "[", " ", "]", " ">> \o [k \in 1..125 |-> IF k <= 120 THEN "t" ELSE "u"]

LineCatalogue ==
  {DoneLine, DoneUpperLine, ImplLine, OpenLine, IndentedLine, TightLine, QueryLine,
   BareLine, ProseLine, TwoCharLine, PlusLine, TabLine, InnerLine, NoTrailSpaceLine,
   EmptyLine, LongLine}

CountingLines == {DoneLine, OpenLine}

\* the text of a file whose lines all end with a newline
RECURSIVE Join(_)
Join(ls) == IF ls = <<>> THEN <<>> ELSE Head(ls) \o <<"\n">> \o Join(Tail(ls))

\* the example document: three tasks and a line of prose, no final newline
ExampleText ==
  DoneLine \o <<"\n">> \o OpenLine \o <<"\n">> \o <<"-", " ", "[", "~", "]", " ", "c">>
    \o <<"\n">> \o ProseLine

SeqsUpTo(set, n) == UNION {[1..k -> set] : k \in 0..n}

File(rel, readable, text) ==
  [rel |-> rel, kind |-> "file", readable |-> readable, text |-> text]

Dir(rel) == [rel |-> rel, kind |-> "dir", readable |-> TRUE, text |-> <<>>]

\* documents whose content and readability vary from run to run
PlanPaths ==
  {<<<<"a", ".", "m", "d">>>>, <<<<"Z", ".", "m", "d">>>>, <<<<"b">>, <<"c", ".", "m", "d">>>>, <<<<"a">>, <<"b", ".", "m", "d">>>>}

PlanFiles ==
  {File(rel, TRUE, <<>>) : rel \in PlanPaths}
    \cup {File(rel, TRUE, ExampleText) : rel \in PlanPaths}
    \cup {File(rel, FALSE, ExampleText) : rel \in PlanPaths}

\* entries that must never be reported: the reserved name in three casings
\* and at three depths, a file that is not *.md, a directory named like one
OtherEntries ==
  {File(<<<<"R", "E", "A", "D", "M", "E", ".", "m", "d">>>>, TRUE, ExampleText),
   File(<<<<"b">>, <<"R", "e", "a", "d", "M", "e", ".", "m", "d">>>>, TRUE, ExampleText),
   File(<<<<"b">>, <<"c">>, <<"r", "e", "a", "d", "m", "e", ".", "m", "d">>>>, TRUE, ExampleText),
   File(<<<<"a", ".", "t", "x", "t">>>>, TRUE, ExampleText),
   Dir(<<<<"d", ".", "m", "d">>>>)}

\* a tree holds at most one entry per path
Trees ==
  {t \in SUBSET (PlanFiles \cup OtherEntries) :
     /\ Cardinality(t) <= MaxFiles
     /\ \A e, f \in t : e.rel = f.rel => e = f}

OnlyPlan == <<<<"a", ".", "m", "d">>>>

SingleTrees ==
  {{File(OnlyPlan, TRUE, Join(ls))} :
     ls \in SeqsUpTo(LineCatalogue, MaxShort) \cup SeqsUpTo(CountingLines, MaxLines)}

(***************************************************************************)
(* The run of main().                                                      *)
(***************************************************************************)
VARIABLES
  rootExists, \* whether docs/plans is a directory
  fs,         \* the entries below docs/plans
  pc,         \* where main() stands
  files,      \* the list of line 13, in the order rglob produced it
  docs,       \* the sorted list the loop of line 20 runs over
  pos,        \* how many of docs the loop has taken
  lines,      \* the lines of the document at hand
  idx,        \* how many of them the inner loop has taken
  total, done, impl, unchecked,
  out,        \* the lines printed so far
  exit        \* the exit status, -1 while running

vars == <<rootExists, fs, pc, files, docs, pos, lines, idx,
          total, done, impl, unchecked, out, exit>>

Counts == [total |-> total, done |-> done, impl |-> impl, unchecked |-> unchecked]

Init ==
  /\ \/ rootExists = FALSE /\ fs = {}
     \/ rootExists = TRUE /\ fs \in Trees \cup SingleTrees
  /\ pc = "discover"
  /\ files = <<>>
  /\ docs = <<>>
  /\ pos = 0
  /\ lines = <<>>
  /\ idx = 0
  /\ total = 0 /\ done = 0 /\ impl = 0 /\ unchecked = <<>>
  /\ out = <<>>
  /\ exit = -1

\* the orders in which a directory walk can produce a set of entries
Orders(set) ==
  {f \in [1..Cardinality(set) -> set] : \A i, j \in 1..Cardinality(set) : f[i] = f[j] => i = j}

\* a plausible slip: a missing root is an error
DiscoverStrict ==
  /\ pc = "discover"
  /\ IF rootExists
     THEN /\ files' \in Orders(Discovered(rootExists, fs))
          /\ pc' = "sort"
          /\ exit' = exit
     ELSE /\ files' = files
          /\ pc' = "crashed"
          /\ exit' = 1
  /\ UNCHANGED <<rootExists, fs, docs, pos, lines, idx, total, done, impl, unchecked, out>>

\* lines 12-17: the list comprehension over rglob
Discover ==
  /\ pc = "discover"
  /\ files' \in Orders(Discovered(rootExists, fs))
  /\ pc' = "sort"
  /\ UNCHANGED <<rootExists, fs, docs, pos, lines, idx, total, done, impl, unchecked,
                 out, exit>>

\* line 20: the list is sorted once, before the first iteration
SortFiles ==
  /\ pc = "sort"
  /\ docs' = Sorted(files)
  /\ pc' = "next"
  /\ UNCHANGED <<rootExists, fs, files, pos, lines, idx, total, done, impl, unchecked,
                 out, exit>>

\* lines 20-26: the next document is taken, its counters are reset and its
\* text is read and split
OpenDoc ==
  /\ pc = "next"
  /\ pos < Len(docs)
  /\ docs[pos + 1].readable
  /\ pos' = pos + 1
  /\ total' = ZeroCounts.total /\ done' = ZeroCounts.done /\ impl' = ZeroCounts.impl
  /\ unchecked' = ZeroCounts.unchecked
  /\ lines' = SplitLines(docs[pos + 1].text)
  /\ idx' = 0
  /\ pc' = "scan"
  /\ UNCHANGED <<rootExists, fs, files, docs, out, exit>>

\* line 26 on a file that cannot be read: read_text raises, nothing catches
\* it, and the interpreter ends the process with status 1
ReadFails ==
  /\ pc = "next"
  /\ pos < Len(docs)
  /\ ~docs[pos + 1].readable
  /\ pos' = pos + 1
  /\ total' = ZeroCounts.total /\ done' = ZeroCounts.done /\ impl' = ZeroCounts.impl
  /\ unchecked' = ZeroCounts.unchecked
  /\ pc' = "crashed"
  /\ exit' = 1
  /\ UNCHANGED <<rootExists, fs, files, docs, lines, idx, out>>

\* lines 26-37: one iteration of the inner loop
ScanLine ==
  /\ pc = "scan"
  /\ idx < Len(lines)
  /\ LET c == Tally(Counts, idx + 1, lines[idx + 1]) IN
       /\ total' = c.total /\ done' = c.done /\ impl' = c.impl
       /\ unchecked' = c.unchecked
  /\ idx' = idx + 1
  /\ UNCHANGED <<rootExists, fs, pc, files, docs, pos, lines, out, exit>>

\* lines 39-48: the inner loop is over and the block of the document is
\* printed
Report ==
  /\ pc = "scan"
  /\ idx = Len(lines)
  /\ out' = out \o ReportLines(AsPosix(docs[pos].rel), Counts)
  /\ pc' = "next"
  /\ UNCHANGED <<rootExists, fs, files, docs, pos, lines, idx, total, done, impl,
                 unchecked, exit>>

\* lines 50 and 54: the loop is over, main returns 0 and SystemExit carries it
Return ==
  /\ pc = "next"
  /\ pos = Len(docs)
  /\ pc' = "done"
  /\ exit' = 0
  /\ UNCHANGED <<rootExists, fs, files, docs, pos, lines, idx, total, done, impl,
                 unchecked, out>>

Next == Discover \/ SortFiles \/ OpenDoc \/ ReadFails \/ ScanLine \/ Report \/ Return

Spec == Init /\ [][Next]_vars

(***************************************************************************)
(* Vocabulary of the properties.                                           *)
(***************************************************************************)
\* the inner loop is about to take a line
AtLine == pc = "scan" /\ idx < Len(lines)

\* the block of a document has just been printed, or the run ended after it
Reported == pc \in {"next", "done"} /\ pos >= 1

\* the lines printed for document p, in print order
BlockOf(p) == LET mine(l) == l.doc = p IN SelectSeq(out, mine)

OfKind(block, kind) == LET is(l) == l.kind = kind IN SelectSeq(block, is)

LastBlock == BlockOf(AsPosix(docs[pos].rel))

CountersUnchanged == UNCHANGED <<total, done, impl, unchecked>>

\* the line shape the specification describes: leading whitespace, a list
\* marker, one space, a bracketed single character, one space, any text
SpecPattern(line) ==
  \E a \in 1..Len(line) :
    /\ \A k \in 1..(a - 1) : line[k] \in Whitespace
    /\ line[a] \in {"-", "*"}
    /\ a + 5 <= Len(line)
    /\ line[a + 1] = " " /\ line[a + 2] = "[" /\ line[a + 4] = "]" /\ line[a + 5] = " "

\* the character between the brackets of such a line
SpecState(line) ==
  LET a == CHOOSE k \in 1..Len(line) :
             line[k] \in {"-", "*"} /\ \A j \in 1..(k - 1) : line[j] \in Whitespace
  IN line[a + 3]

\* the line shape the program counts: leading whitespace, a list marker,
\* any whitespace, a bracketed space, x, X or tilde, then anything at all;
\* b is where the opening bracket stands
CountedAt(line, b) ==
  /\ b + 2 <= Len(line)
  /\ line[b] = "[" /\ line[b + 1] \in {" ", "x", "X", "~"} /\ line[b + 2] = "]"
  /\ \E a \in 1..(b - 1) :
       /\ line[a] \in {"-", "*"}
       /\ \A k \in 1..(b - 1) : k # a => line[k] \in Whitespace

CountedPattern(line) == \E b \in 1..Len(line) : CountedAt(line, b)

CountedState(line) == line[1 + CHOOSE b \in 1..Len(line) : CountedAt(line, b)]

\* done / total * 100 lies exactly half way between two whole numbers
Tie(d, t) == (200 * d) % t = 0 /\ ((200 * d) \div t) % 2 = 1

Summaries == {out[k] : k \in {j \in 1..Len(out) : out[j].kind = "summary"}}

ReadmeUpper == <<"R", "E", "A", "D", "M", "E", ".", "M", "D">>

\* the reserved name in any letter casing
AnyCaseReadme(name) ==
  /\ Len(name) = Len(ReadmeLower)
  /\ \A k \in 1..Len(name) : name[k] \in {ReadmeLower[k], ReadmeUpper[k]}

\* a regular file below the root with a name that ends in ".md" and is not
\* the reserved name
IsPlan(e) ==
  /\ e.kind = "file"
  /\ \E stem \in 0..Len(Name(e.rel)) :
       Name(e.rel) = SubSeq(Name(e.rel), 1, stem) \o <<".", "m", "d">>
  /\ ~AnyCaseReadme(Name(e.rel))

Plans == IF rootExists THEN {e \in fs : IsPlan(e)} ELSE {}

PrintedDocs == {out[k].doc : k \in 1..Len(out)}

(***************************************************************************)
(* C1                                                                      *)
(***************************************************************************)
\* C1: whatever prefix of a document's lines has been taken, and when its
\* block is printed, done + in-progress + the number of unchecked entries
\* collected equals total; the summary printed carries these counters.
C1_CountsAddUp ==
  /\ done + impl + Len(unchecked) = total
  /\ (Reported /\ total > 0) =>
       \E l \in Summaries :
         /\ l.doc = AsPosix(docs[pos].rel)
         /\ l.done = done /\ l.impl = impl /\ l.total = total

C1_Witness ==
  Reported /\ total = 3 /\ done = 1 /\ impl = 1 /\ Len(unchecked) = 1 /\ idx = 4

(***************************************************************************)
(* C2                                                                      *)
(***************************************************************************)
\* C2 as stated: a line is counted exactly when it has the shape the
\* specification describes (marker, ONE space, one bracketed character, ONE
\* space, text), and any other line changes no counter.
C2_AsStated ==
  [][AtLine =>
       /\ (total' = total + 1) <=> SpecPattern(lines[idx + 1])
       /\ ~SpecPattern(lines[idx + 1]) => CountersUnchanged]_vars

\* C2 amended: a line is counted exactly when, after leading whitespace, it
\* has a list marker, any whitespace (none too), an opening bracket, one of
\* space, x, X and tilde, a closing bracket, and then anything (nothing
\* too); any other line changes none of total, done, in-progress and the
\* unchecked list.
C2_Amended ==
  [][AtLine =>
       IF CountedPattern(lines[idx + 1])
       THEN total' = total + 1
       ELSE CountersUnchanged]_vars

\* a checkbox without any space has been counted, a bracketed "?" has not
C2_Witness ==
  /\ pc = "scan" /\ idx = 2
  /\ lines = <<TightLine, QueryLine>>
  /\ total = 1

(***************************************************************************)
(* C3                                                                      *)
(***************************************************************************)
\* C3 as stated: on a line of the described shape with state character c,
\* x or X adds to done, tilde adds to in-progress, and any other c (a space,
\* "?") adds to total and to the unchecked entries.
C3_AsStated ==
  [][(AtLine /\ SpecPattern(lines[idx + 1])) =>
       LET c == SpecState(lines[idx + 1]) IN
         /\ c \in {"x", "X"} => done' = done + 1
         /\ c = "~" => impl' = impl + 1
         /\ c \notin {"x", "X", "~"} =>
              total' = total + 1 /\ Len(unchecked') = Len(unchecked) + 1]_vars

\* C3 amended: on a counted line, x or X adds to total and done, tilde adds
\* to total and in-progress, and a space adds to total and appends the line,
\* with its number, to the unchecked entries; a line with any other
\* character between the brackets is not counted and changes nothing.
C3_Amended ==
  [][AtLine =>
       LET line == lines[idx + 1] IN
       IF CountedPattern(line)
       THEN LET c == CountedState(line) IN
            /\ total' = total + 1
            /\ c \in {"x", "X"} =>
                 done' = done + 1 /\ impl' = impl /\ unchecked' = unchecked
            /\ c = "~" =>
                 impl' = impl + 1 /\ done' = done /\ unchecked' = unchecked
            /\ c = " " =>
                 /\ done' = done /\ impl' = impl
                 /\ Len(unchecked') = Len(unchecked) + 1
                 /\ SubSeq(unchecked', 1, Len(unchecked)) = unchecked
                 /\ unchecked'[Len(unchecked')][1] = idx + 1
       ELSE CountersUnchanged]_vars

\* an upper-case X has counted as done, a bracketed "?" as nothing
C3_Witness ==
  /\ pc = "scan" /\ idx = 2
  /\ lines = <<DoneUpperLine, QueryLine>>
  /\ total = 1 /\ done = 1 /\ unchecked = <<>>

(***************************************************************************)
(* C4                                                                      *)
(***************************************************************************)
\* C4: a document with tasks prints min(5, unchecked entries) preview lines,
\* the first entries in collection order, and an overflow line exactly when
\* there are more than 5, giving the number of entries beyond 5.
C4_Preview ==
  (Reported /\ total > 0) =>
    LET items == OfKind(LastBlock, "item")
        mores == OfKind(LastBlock, "more")
        n     == Len(unchecked)
    IN /\ Len(items) = (IF n < 5 THEN n ELSE 5)
       /\ \A k \in 1..Len(items) : items[k].ln = unchecked[k][1]
       /\ Len(mores) = (IF n > 5 THEN 1 ELSE 0)
       /\ \A k \in 1..Len(mores) : mores[k].more = n - 5
       /\ Len(LastBlock) = 1 + Len(items) + Len(mores)
       /\ \A k \in 1..Len(items) : LastBlock[1 + k] = items[k]

C4_Witness ==
  /\ Reported /\ Len(unchecked) = 6
  /\ Len(OfKind(LastBlock, "item")) = 5
  /\ LastBlock[Len(LastBlock)].kind = "more" /\ LastBlock[Len(LastBlock)].more = 1

(***************************************************************************)
(* C5                                                                      *)
(***************************************************************************)
\* C5: a document without tasks prints the "no task checkboxes" line and
\* nothing else; a document with tasks prints one summary line and never
\* the "no task checkboxes" line.
C5_Notice ==
  Reported =>
    IF total = 0
    THEN Len(LastBlock) = 1 /\ LastBlock[1].kind = "notasks"
    ELSE /\ Len(OfKind(LastBlock, "summary")) = 1
         /\ LastBlock[1].kind = "summary"
         /\ OfKind(LastBlock, "notasks") = <<>>

\* a document of prose only next to a document of unchecked tasks only
C5_Witness ==
  /\ Reported /\ total > 0 /\ done = 0 /\ Len(LastBlock) >= 2
  /\ LastBlock[1].kind = "summary"

(***************************************************************************)
(* C6                                                                      *)
(***************************************************************************)
\* C6 as stated: the percentage is done / total * 100 rounded to the nearest
\* whole number with ties rounded up (1 of 8 prints 13), within 0..100.
C6_AsStated ==
  \A l \in Summaries :
    l.pct = (200 * l.done + l.total) \div (2 * l.total) /\ l.pct \in 0..100

\* C6 amended: the percentage is a whole number in 0..100 that is nearest to
\* done / total * 100 (never more than one half away); a tie is not rounded
\* up: where the quotient is exact (total a power of two) the tie goes to
\* the even neighbour, so 1 of 8 = 12.5 prints 12 and 3 of 8 = 37.5 prints
\* 38; 1 of 3 prints 33 and 2 of 3 prints 67.
C6_Amended ==
  \A l \in Summaries :
    /\ l.pct \in 0..100
    /\ 2 * (100 * l.done - l.pct * l.total) <= l.total
    /\ 2 * (l.pct * l.total - 100 * l.done) <= l.total
    /\ (Tie(l.done, l.total) /\ \E k \in 0..30 : Pow2(k) = l.total) => l.pct % 2 = 0
    /\ (l.done = 1 /\ l.total = 3) => l.pct = 33
    /\ (l.done = 2 /\ l.total = 3) => l.pct = 67

C6_Witness ==
  \E l \in Summaries : l.done = 1 /\ l.total = 8 /\ l.pct = 12

(***************************************************************************)
(* C7                                                                      *)
(***************************************************************************)
\* C7: the blocks come in strictly ascending order of the documents' paths:
\* of two printed lines the later one belongs to the same document or to
\* one with a greater path (so blocks never interleave), every block starts
\* with its only header line, and a run that returns has printed a block
\* for every discovered document.
C7_Order ==
  /\ \A i, j \in 1..Len(out) :
       i < j => \/ out[i].doc = out[j].doc /\ out[j].kind \in {"item", "more"}
                \/ StrLess(out[i].doc, out[j].doc)
  /\ \A i \in 1..Len(out) :
       (i = 1 \/ out[i - 1].doc # out[i].doc) => out[i].kind \in {"notasks", "summary"}
  /\ pc = "done" => PrintedDocs = {AsPosix(files[k].rel) : k \in 1..Len(files)}

\* three documents, found in another order than they are reported in
C7_Witness ==
  /\ pc = "done" /\ Cardinality(PrintedDocs) = 3 /\ files # docs
  /\ \E i \in 1..Len(out) : out[i].kind = "item"

(***************************************************************************)
(* C8                                                                      *)
(***************************************************************************)
\* C8: a file named README.md in any letter casing, at any depth, is never
\* scanned or reported; a run that returns has reported every other regular
\* file below the root whose name ends in ".md".
C8_Readme ==
  /\ \A e \in fs :
       AnyCaseReadme(Name(e.rel)) =>
         /\ AsPosix(e.rel) \notin PrintedDocs
         /\ \A k \in 1..Len(docs) : docs[k].rel # e.rel
  /\ pc = "done" => \A e \in Plans : AsPosix(e.rel) \in PrintedDocs

\* a mixed-case ReadMe.md in a subdirectory, skipped, next to a reported plan
C8_Witness ==
  /\ pc = "done" /\ out # <<>>
  /\ \E e \in fs : Name(e.rel) = <<"R", "e", "a", "d", "M", "e", ".", "m", "d">> /\ Len(e.rel) = 2

(***************************************************************************)
(* C9                                                                      *)
(***************************************************************************)
\* C9: without a root directory, or without a matching file below it, the
\* run prints nothing and ends with status 0; a run dies only on a document
\* it cannot read, and every run over readable documents ends with status 0.
\* Ending is stated step by step: every step moves the run forward in the
\* order (stage, document, phase, line), whose components are bounded, and
\* leaves it either ended or able to take a further step.
Stage == CASE pc = "discover" -> 0
           [] pc = "sort" -> 1
           [] pc \in {"next", "scan"} -> 2
           [] OTHER -> 3

Phase == IF pc = "scan" THEN 0 ELSE 1

Rank == <<Stage, pos, Phase, idx>>

\* r comes before s in the lexicographic order of tuples of one length
Before(r, s) ==
  \E k \in 1..Len(r) : r[k] < s[k] /\ \A j \in 1..(k - 1) : r[j] = s[j]

CanStep ==
  \/ pc \in {"discover", "sort"}
  \/ pc = "next" /\ pos <= Len(docs)
  \/ pc = "scan" /\ idx <= Len(lines) /\ pos \in 1..Len(docs)

C9_Exit ==
  [][/\ Before(Rank, Rank')
     /\ (pc' \in {"done", "crashed"} \/ CanStep')
     /\ (pc' = "scan" => idx' = idx + 1 \/ (idx' = 0 /\ pos' = pos + 1))
     /\ (Plans = {} => out' = <<>> /\ pc' \in {"sort", "next", "done"})
     /\ (pc' = "crashed" => exit' = 1 /\ \E e \in Plans : ~e.readable)
     /\ (pc' = "done" => exit' = 0)
     /\ (pc' \notin {"done", "crashed"} => exit' = -1)]_vars

\* a run without a root directory has ended
C9_Witness == ~rootExists /\ pc = "done" /\ exit = 0 /\ out = <<>>

(***************************************************************************)
(* C10                                                                     *)
(***************************************************************************)
\* C10: the unchecked entries carry strictly ascending line numbers, which
\* are the 1-based positions in the file of the unchecked task lines taken
\* so far (lines that are no tasks count too), and a preview shows at most
\* the first 120 characters of an entry while the entry and the counters
\* stay as collected.
C10_LineNumbers ==
  /\ \A k, l \in 1..Len(unchecked) : k < l => unchecked[k][1] < unchecked[l][1]
  /\ (pc = "scan" \/ Reported) =>
       {unchecked[k][1] : k \in 1..Len(unchecked)}
         = {n \in 1..idx : CountedPattern(lines[n]) /\ CountedState(lines[n]) = " "}
  /\ (Reported /\ total > 0) =>
       LET items == OfKind(LastBlock, "item") IN
         /\ \A k \in 1..Len(items) :
              /\ k <= Len(unchecked)
              /\ Len(items[k].txt) = (IF Len(unchecked[k][2]) < 120
                                      THEN Len(unchecked[k][2]) ELSE 120)
              /\ items[k].txt = SubSeq(unchecked[k][2], 1, Len(items[k].txt))
         /\ LastBlock[1].total = done + impl + Len(unchecked)

\* a long entry on line 2, behind a line of prose, shown cut to 120
C10_Witness ==
  /\ Reported /\ lines = <<ProseLine, LongLine>>
  /\ unchecked # <<>> /\ unchecked[1][1] = 2 /\ Len(unchecked[1][2]) = 125
  /\ Len(out) = 2 /\ out[2].ln = 2 /\ Len(out[2].txt) = 120

====
